---- MODULE Spec2Model ----
(***************************************************************************)
(* A model of the entity-aware encoder of luke/model.py (EntityEmbeddings, *)
(* EntitySelector, LukeBaseModel, LukeModel, LukeE2EModel) and of the      *)
(* collate step of examples/reading_comprehension/main.py.                 *)
(*                                                                         *)
(* Numbers.  Tensors hold integers.  A weight is an integer on a unit      *)
(* grid; the output of a layer normalisation is in units of 1/LN_UNIT; a   *)
(* soft-max weight exp(x - max) is in units of 1/ExpTab(0).  Division      *)
(* rounds down where the floating-point code rounds to nearest.            *)
(* Dropout is the identity (evaluation mode).                              *)
(***************************************************************************)
EXTENDS Integers, Sequences, FiniteSets, TLC

VARIABLES
    config,     \* the LukeE2EConfig the model was built with
    params,     \* parameter path -> tensor id (the module tree's registry)
    heap,       \* tensor id -> tensor (storage shared by every alias)
    fpc,        \* forward pass: "idle" or "returned"
    fin,        \* the arguments of the last forward call
    fout,       \* what the last forward call computed, or the exception
    hist,       \* the weight mutations so far: their number and access paths
    ld,         \* the last load_bert_weights call: arguments and outcome
    log,        \* the records handed to the logger so far
    cpc,        \* data pipeline: "features", "collated" or "encoded"
    ret,        \* the batch collate_fn returned
    ext,        \* the extended attention mask built from that batch
    evaluate,   \* load_and_cache_examples: the call's evaluate argument
    ranks,      \* the args.local_rank of the processes making the call
    lpc,        \* local rank -> the line of load_and_cache_examples it is at
    cache_file, \* the cache file: "absent", "partial" or "complete"
    entered,    \* local rank -> its number of torch.distributed.barrier() calls
    seen,       \* local rank -> what os.path.exists met ("none" before the test)
    features,   \* local rank -> "none", "loaded", "created" or "error"
    wrote       \* the local ranks that called torch.save on the cache file

vars == <<config, params, heap, fpc, fin, fout, hist, ld, log, cpc, ret, ext,
          evaluate, ranks, lpc, cache_file, entered, seen, features, wrote>>

wvars == <<config, params, heap>>

fvars == <<fpc, fin, fout>>

lvars == <<hist, ld, log>>

dvars == <<evaluate, ranks, lpc, cache_file, entered, seen, features, wrote>>

cvars == <<cpc, ret, ext, dvars>>

(***************************************************************************)
(* Bounds of the model.                                                    *)
(***************************************************************************)
NumSlots == 2       \* M: mention (entity) slots per example
NumCand == 3        \* C: candidate entities per mention slot
MaxMention == 2     \* P: position ids per entity slot
NumDraws == 2       \* distinct outcomes of a random draw of a tensor
MaxProcs == 3       \* processes of a distributed run
MaxKeys == 3        \* entries of a checkpoint
MaxOps == 2         \* weight mutations in a run
MaxLayers == 3      \* encoder layers a configuration may ask for
MaxWords == 2       \* word tokens of an example
MaxEntities == 2    \* entity slots of an example
BatchSize == 2      \* examples in a batch

(***************************************************************************)
(* Configuration (LukeConfig / LukeE2EConfig); the sizes are fixed, the    *)
(* layer counts and the temperature are chosen per specification.          *)
(***************************************************************************)
Sizes == [hidden_size |-> 3, entity_vocab_size |-> 3,
          max_position_embeddings |-> 2, type_vocab_size |-> 2]

H == Sizes.hidden_size

EPS_INV == 1000         \* stands for 1 / EPS: above every sum of weights
PAD_PENALTY == -10000   \* EntitySelector.forward: added where the id is 0
MASK_ENTITY == 2        \* index of the [MASK] entity
MASKED_OUT == -10000    \* attention bias of a masked-out position
LN_UNIT == 10           \* grid of a layer normalisation's output

(***************************************************************************)
(* Vectors and tensors.  A tensor is a table of nrows rows of dim numbers, *)
(* rows indexed from 0 as in the code.                                     *)
(***************************************************************************)
ZeroVec(d) == [h \in 1..d |-> 0]

VAdd(a, b) == [h \in DOMAIN a |-> a[h] + b[h]]

VScale(a, k) == [h \in DOMAIN a |-> a[h] * k]

RECURSIVE SumTo(_, _)
SumTo(f, n) == IF n = 0 THEN 0 ELSE f[n] + SumTo(f, n - 1)

Dot(a, b) == SumTo([h \in DOMAIN a |-> a[h] * b[h]], Len(a))

RECURSIVE VSumTo(_, _, _)
VSumTo(rows, n, d) == IF n = 0 THEN ZeroVec(d) ELSE VAdd(rows[n], VSumTo(rows, n - 1, d))

Shape(t) == <<t.nrows, t.dim>>

\* One outcome of drawing every element at random (normal_, the default
\* initialisers): outcome `seed` of NumDraws.
DrawValue(seed, i, h) == ((seed * (i + 2) + h * (i + 1) + seed * h) % 5) - 2

DrawTensor(seed, n, d) ==
    [nrows |-> n, dim |-> d,
     data |-> [i \in 0..(n - 1) |-> [h \in 1..d |-> DrawValue(seed, i, h)]]]

FillTensor(n, d, v) ==
    [nrows |-> n, dim |-> d, data |-> [i \in 0..(n - 1) |-> [h \in 1..d |-> v]]]

\* nn.Embedding(n, d, padding_idx=0) at construction: drawn, then row 0 zeroed.
PaddedEmbedding(seed, n, d) ==
    [nrows |-> n, dim |-> d,
     data |-> [i \in 0..(n - 1) |->
                 [h \in 1..d |-> IF i = 0 THEN 0 ELSE DrawValue(seed, i, h)]]]

(***************************************************************************)
(* The module tree.  A parameter path is the sequence of the names that    *)
(* the dotted path joins: <<"embeddings", "LayerNorm", "weight">>.  Each   *)
(* BertLayer is kept as one Linear module, "dense"; the pooler, the word   *)
(* embeddings and the selector's transform hold no state the properties    *)
(* below read and are left out of the tree.                                *)
(***************************************************************************)
Container(p) == [path |-> p, kind |-> "container", nrows |-> 0, dim |-> 0, padding_idx |-> FALSE]

Linear(p) == [path |-> p, kind |-> "Linear", nrows |-> 1, dim |-> H, padding_idx |-> FALSE]

LayerNormModule(p) == [path |-> p, kind |-> "LayerNorm", nrows |-> 1, dim |-> H, padding_idx |-> FALSE]

Embedding(p, n, d, pad) == [path |-> p, kind |-> "Embedding", nrows |-> n, dim |-> d, padding_idx |-> pad]

RECURSIVE BertLayers(_, _)
BertLayers(p, n) ==
    IF n = 0 THEN <<>>
    ELSE BertLayers(p, n - 1) \o
         << Container(p \o <<"layer", ToString(n - 1)>>),
            Linear(p \o <<"layer", ToString(n - 1), "dense">>) >>

\* BertEncoder(config): config.num_hidden_layers layers.
BertEncoder(p, cfg) ==
    <<Container(p), Container(p \o <<"layer">>)>> \o BertLayers(p, cfg.num_hidden_layers)

\* Number of layers of the encoder rooted at p in a module tree.
NumLayers(tree, p) ==
    Cardinality({k \in 1..Len(tree) : /\ tree[k].kind = "container"
                                      /\ Len(tree[k].path) = Len(p) + 2
                                      /\ SubSeq(tree[k].path, 1, Len(p) + 1) = p \o <<"layer">>})

\* EntityEmbeddings.__init__
EntityEmbeddingsInit(p, entity_vocab_size) ==
    << Container(p),
       Embedding(p \o <<"entity_embeddings">>, entity_vocab_size, H, TRUE),
       Embedding(p \o <<"position_embeddings">>, Sizes.max_position_embeddings, H, FALSE),
       Embedding(p \o <<"token_type_embeddings">>, Sizes.type_vocab_size, H, FALSE),
       LayerNormModule(p \o <<"LayerNorm">>) >>

\* EntitySelector.__init__
EntitySelectorInit(p) ==
    << Container(p),
       Embedding(p \o <<"embeddings">>, Sizes.entity_vocab_size, H, TRUE),
       Embedding(p \o <<"bias">>, Sizes.entity_vocab_size, 1, TRUE) >>

\* LukeBaseModel.__init__: encoder, (pooler), embeddings, entity_embeddings.
LukeBaseModelInit(cfg) ==
    <<Container(<<>>)>> \o BertEncoder(<<"encoder">>, cfg)
      \o <<Container(<<"embeddings">>), LayerNormModule(<<"embeddings", "LayerNorm">>)>>
      \o EntityEmbeddingsInit(<<"entity_embeddings">>, Sizes.entity_vocab_size)

\* The configuration the stage-1 encoder is built from.  __init__ prepares
\* el_config (num_hidden_layers = num_el_hidden_layers) and then passes
\* config itself to BertEncoder.
ElEncoderConfig(cfg) == cfg

\* LukeE2EModel.__init__: the modules, in registration order.
LukeE2EModules(cfg) ==
    LukeBaseModelInit(cfg)
      \o EntityEmbeddingsInit(<<"mask_entity_embeddings">>, 2)
      \o BertEncoder(<<"el_encoder">>, ElEncoderConfig(cfg))
      \o EntitySelectorInit(<<"entity_selector">>)

LocalNames(m) ==
    CASE m.kind = "container" -> <<>>
      [] m.kind = "Embedding" -> <<"weight">>
      [] OTHER -> <<"weight", "bias">>

RECURSIVE ParamPathsFrom(_, _)
ParamPathsFrom(tree, k) ==
    IF k > Len(tree) THEN <<>>
    ELSE [j \in 1..Len(LocalNames(tree[k])) |-> tree[k].path \o <<LocalNames(tree[k])[j]>>]
         \o ParamPathsFrom(tree, k + 1)

\* Every parameter path of the tree, in traversal order.
ParamPaths(tree) == ParamPathsFrom(tree, 1)

Range(s) == {s[k] : k \in DOMAIN s}

ModuleAt(tree, p) == CHOOSE m \in Range(tree) : m.path = p

Owner(tree, path) == ModuleAt(tree, SubSeq(path, 1, Len(path) - 1))

LeafName(path) == path[Len(path)]

ENTITY_W == <<"entity_embeddings", "entity_embeddings", "weight">>

SELECTOR_W == <<"entity_selector", "embeddings", "weight">>

\* The tensor a module's parameter holds when the module is constructed
\* (outcome `seed` of the framework's default initialisers).
FreshTensor(m, name, seed) ==
    CASE m.kind = "LayerNorm" -> FillTensor(1, m.dim, IF name = "weight" THEN 1 ELSE 0)
      [] m.kind = "Embedding" /\ m.padding_idx -> PaddedEmbedding(seed + Len(m.path), m.nrows, m.dim)
      [] OTHER -> DrawTensor(seed + Len(m.path), m.nrows, m.dim)

\* A model whose selector keeps the table it was constructed with.
TiedTo_Untied(path) == path

\* The tensor the parameter at `path` refers to once the model is built:
\* its own, except that line 181 makes the selector's candidate table the
\* entity-identity table itself.
TiedTo(path) == IF path = SELECTOR_W THEN ENTITY_W ELSE path

\* LukeE2EModel.__init__: the registry and the storage.
E2EParams(cfg) == [path \in Range(ParamPaths(LukeE2EModules(cfg))) |-> TiedTo(path)]

E2EHeap(cfg, seed) ==
    LET tree == LukeE2EModules(cfg)
        ps == E2EParams(cfg)
    IN [t \in Range(ps) |-> FreshTensor(Owner(tree, t), LeafName(t), seed)]

Read(ps, hp, path) == hp[ps[path]]

(***************************************************************************)
(* LukeBaseModel.init_weights(module), in place on the module's tensors.   *)
(***************************************************************************)
InitWeightsTensor(m, name, seed) ==
    CASE m.kind = "Linear" /\ name = "weight" -> DrawTensor(seed, m.nrows, m.dim)
      [] m.kind = "Linear" /\ name = "bias" -> FillTensor(m.nrows, m.dim, 0)
      [] m.kind = "Embedding" /\ m.dim = 1 -> FillTensor(m.nrows, m.dim, 0)
      [] m.kind = "Embedding" /\ m.dim # 1 -> DrawTensor(seed, m.nrows, m.dim)
      [] m.kind = "LayerNorm" /\ name = "weight" -> FillTensor(m.nrows, m.dim, 1)
      [] m.kind = "LayerNorm" /\ name = "bias" -> FillTensor(m.nrows, m.dim, 0)

init_weights(ps, hp, m, seed) ==
    LET names == Range(LocalNames(m))
        Hit(t) == {n \in names : ps[m.path \o <<n>>] = t}
    IN [t \in DOMAIN hp |->
          IF Hit(t) = {} THEN hp[t]
          ELSE InitWeightsTensor(m, CHOOSE n \in Hit(t) : TRUE, seed)]

RECURSIVE ApplyInitWeights(_, _, _, _, _)
\* model.apply(model.init_weights): every module of the tree, in order.
ApplyInitWeights(tree, ps, hp, seed, k) ==
    IF k > Len(tree) THEN hp
    ELSE ApplyInitWeights(tree, ps, init_weights(ps, hp, tree[k], seed), seed, k + 1)

(***************************************************************************)
(* Numeric helpers.                                                        *)
(***************************************************************************)
RECURSIVE ISqrtIn(_, _, _)
ISqrtIn(n, lo, hi) ==
    IF lo >= hi THEN lo
    ELSE LET mid == (lo + hi + 1) \div 2
         IN IF mid * mid <= n THEN ISqrtIn(n, mid, hi) ELSE ISqrtIn(n, lo, mid - 1)

ISqrt(n) == ISqrtIn(n, 0, IF n < 46340 THEN n ELSE 46340)

\* x / (n + EPS): n + EPS rounds to n for n >= 1, and is EPS for n = 0.
DivEps(x, n) == IF n = 0 THEN x * EPS_INV ELSE x \div n

\* BertLayerNorm: (x - mean) / sqrt(variance + eps) * weight + bias, the
\* normalised value in units of 1/LN_UNIT.
LayerNorm(x, weight, bias) ==
    LET d == Len(x)
        total == SumTo(x, d)
        c == [h \in 1..d |-> d * x[h] - total]
        s == ISqrt(SumTo([h \in 1..d |-> c[h] * c[h]], d) \div d)
    IN [h \in 1..d |->
          (IF s = 0 THEN 0 ELSE ((LN_UNIT * c[h]) \div s) * weight[h]) + LN_UNIT * bias[h]]

\* exp(-d) for d = 0, 1, 2, ... in units of 1/ExpTab(0).
ExpTab(d) ==
    LET tab == <<10000000, 3678794, 1353353, 497871, 183156, 67379, 24788, 9119,
                 3355, 1234, 454, 167, 61, 23, 8, 3, 1>>
    IN IF d < Len(tab) THEN tab[d + 1] ELSE 0

MaxOf(S) == CHOOSE x \in S : \A y \in S : y <= x

\* F.softmax over the candidate axis: exp(x - max) for each entry, and their sum.
Softmax(x) ==
    LET mx == MaxOf(Range(x))
        w == [c \in DOMAIN x |-> ExpTab(mx - x[c])]
    IN [w |-> w, z |-> SumTo(w, Len(x))]

\* num / den < 1 / k, without leaving 32 bits.
Below(num, den, k) == num <= den \div k /\ num * k < den

(***************************************************************************)
(* EntityEmbeddings.forward for one entity slot.  p is the module's path.  *)
(***************************************************************************)
Clamp0(x) == IF x < 0 THEN 0 ELSE x

\* A mask that lets every looked-up row through.
PositionMask_Unmasked(position_ids) == [k \in DOMAIN position_ids |-> 1]

PositionMask(position_ids) == [k \in DOMAIN position_ids |-> IF position_ids[k] # -1 THEN 1 ELSE 0]

\* Lines 49-53: clamped lookup, mask, sum, division by the count plus EPS.
PositionEmbeddings(table, position_ids) ==
    LET n == Len(position_ids)
        looked == [k \in 1..n |-> table.data[Clamp0(position_ids[k])]]
        mask == PositionMask(position_ids)
        masked == [k \in 1..n |-> VScale(looked[k], mask[k])]
        total == VSumTo(masked, n, table.dim)
        count == SumTo(mask, n)
    IN [h \in 1..table.dim |-> DivEps(total[h], count)]

EntityEmbeddingsForward(ps, hp, p, entity_id, position_ids, token_type_id) ==
    LET entity_embeddings == Read(ps, hp, p \o <<"entity_embeddings", "weight">>).data[entity_id]
        position_embeddings ==
            PositionEmbeddings(Read(ps, hp, p \o <<"position_embeddings", "weight">>), position_ids)
        token_type_embeddings ==
            Read(ps, hp, p \o <<"token_type_embeddings", "weight">>).data[token_type_id]
        embeddings == VAdd(VAdd(entity_embeddings, position_embeddings), token_type_embeddings)
    IN [entity |-> entity_embeddings,
        position |-> position_embeddings,
        out |-> LayerNorm(embeddings,
                          Read(ps, hp, p \o <<"LayerNorm", "weight">>).data[0],
                          Read(ps, hp, p \o <<"LayerNorm", "bias">>).data[0])]

(***************************************************************************)
(* EntitySelector.forward for one mention slot; hidden_states is the       *)
(* output of self.transform.                                               *)
(***************************************************************************)
\* A selector that leaves out the penalty of line 78.
PadPenalty_None(id) == 0

PadPenalty(id) == (IF id = 0 THEN 1 ELSE 0) * PAD_PENALTY

\* Line 77: the score before the padding penalty.
RawScore(ps, hp, hidden_states, id) ==
    Dot(hidden_states, Read(ps, hp, SELECTOR_W).data[id])
      + Read(ps, hp, <<"entity_selector", "bias", "weight">>).data[id][1]

EntitySelectorForward(ps, hp, hidden_states, entity_candidate_ids) ==
    [c \in DOMAIN entity_candidate_ids |->
        RawScore(ps, hp, hidden_states, entity_candidate_ids[c])
          + PadPenalty(entity_candidate_ids[c])]

(***************************************************************************)
(* LukeE2EModel.forward, stage 1 from the selector on, and stage 2.  The   *)
(* encoders are not modelled: the argument `hidden` is, per mention slot,  *)
(* what self.transform made of the stage-1 encoder's output.               *)
(***************************************************************************)
PROB_UNIT == 100        \* grid of a soft-max probability used as a weight

MaskedFill(x, cond, v) == IF cond THEN [h \in DOMAIN x |-> v] ELSE x

\* Lines 197-199: scores, temperature, soft-max.
SelectorLogits(cfg, ps, hp, hidden_states, entity_candidate_ids) ==
    LET scores == EntitySelectorForward(ps, hp, hidden_states, entity_candidate_ids)
    IN [c \in DOMAIN scores |-> scores[c] \div cfg.entity_selector_softmax_temp]

\* An override that adds the [MASK] embedding without clearing the mixture.
OverrideMasked_KeepMixed(mixed, mask_embedding, label) ==
    VAdd(mixed, MaskedFill(mask_embedding, label = -1, 0))

\* Lines 205-210 for one slot; label is the slot's masked_entity_labels entry.
OverrideMasked(mixed, mask_embedding, label) ==
    VAdd(MaskedFill(mixed, label # -1, 0), MaskedFill(mask_embedding, label = -1, 0))

E2ESlot(cfg, ps, hp, in, m) ==
    LET ids == in.entity_candidate_ids[m]
        n == Len(ids)
        logits == SelectorLogits(cfg, ps, hp, in.hidden[m], ids)
        sm == Softmax(logits)
        probs == [c \in 1..n |-> (sm.w[c] * PROB_UNIT) \div sm.z]
        cand == [c \in 1..n |->
                   EntityEmbeddingsForward(ps, hp, <<"entity_embeddings">>, ids[c],
                                           in.entity_position_ids[m], in.entity_segment_ids[m])]
        mixed == [h \in 1..H |-> SumTo([c \in 1..n |-> cand[c].out[h] * probs[c]], n) \div PROB_UNIT]
        mask_embedding ==
            EntityEmbeddingsForward(ps, hp, <<"entity_embeddings">>, MASK_ENTITY,
                                    in.entity_position_ids[m], in.entity_segment_ids[m]).out
    IN [entity_selector_scores |-> logits,
        exp_w |-> sm.w,
        exp_z |-> sm.z,
        identity |-> [c \in 1..n |-> cand[c].entity],
        position |-> cand[1].position,
        mixed |-> mixed,
        entity_embedding_output |->
            IF in.masked_entity_labels = <<>> THEN mixed
            ELSE OverrideMasked(mixed, mask_embedding, in.masked_entity_labels[m])]

\* BertEncoder.forward: `for i, layer_module in enumerate(self.layer)` reads
\* head_mask[i]; a list shorter than the stack ends the pass in IndexError.
BertEncoderForward(num_layers, head_mask_len) ==
    IF head_mask_len < num_layers
    THEN [applied |-> head_mask_len, raised |-> "IndexError"]
    ELSE [applied |-> num_layers, raised |-> "none"]

E2EForward(cfg, ps, hp, in) ==
    LET tree == LukeE2EModules(cfg)
        el == BertEncoderForward(NumLayers(tree, <<"el_encoder">>), cfg.num_el_hidden_layers)
        main == BertEncoderForward(NumLayers(tree, <<"encoder">>), cfg.num_hidden_layers)
    IN IF el.raised # "none"
       THEN [raised |-> el.raised, el_layers |-> el.applied, main_layers |-> 0, slots |-> <<>>]
       ELSE [raised |-> main.raised, el_layers |-> el.applied, main_layers |-> main.applied,
             slots |-> [m \in DOMAIN in.entity_candidate_ids |-> E2ESlot(cfg, ps, hp, in, m)]]

(***************************************************************************)
(* The forward specification: a built model in one of the weight states    *)
(* the program reaches, called on batches of one example.                  *)
(***************************************************************************)
Temps == {1, 100, 10000}

FwdConfig(temp) ==
    [num_hidden_layers |-> 1, num_el_hidden_layers |-> 1, entity_selector_softmax_temp |-> temp]

\* Every tensor as an optimizer or a checkpoint may leave it.
TrainedHeap(hp, seed) == [t \in DOMAIN hp |-> DrawTensor(seed, hp[t].nrows, hp[t].dim)]

FwdHeaps(cfg) ==
    LET tree == LukeE2EModules(cfg)
        ps == E2EParams(cfg)
        built == E2EHeap(cfg, 1)
    IN {built, TrainedHeap(built, 2)}
         \cup {ApplyInitWeights(tree, ps, built, seed, 1) : seed \in 1..NumDraws}

Slots == 1..NumSlots

V == Sizes.entity_vocab_size

HiddenSamples == << [h \in 1..H |-> 0], [h \in 1..H |-> 1],
                    [h \in 1..H |-> IF h = 1 THEN -20000 ELSE 1] >>

\* Slot m of a batch holds the base slot's data moved on by m - 1.
RotIds(ids, m) == [c \in DOMAIN ids |-> (ids[c] + (m - 1)) % V]

\* Later slots are padded further, as the collate step pads short examples.
RotPos(pos, m) ==
    [k \in DOMAIN pos |->
        IF k < m THEN -1
        ELSE ((pos[k] + 1 + (m - 1)) % (Sizes.max_position_embeddings + 1)) - 1]

Batch(ids, pos, seg, hid, labels) ==
    [entity_candidate_ids |-> [m \in Slots |-> RotIds(ids, m)],
     entity_position_ids |-> [m \in Slots |-> RotPos(pos, m)],
     entity_segment_ids |-> [m \in Slots |-> (seg + (m - 1)) % Sizes.type_vocab_size],
     hidden |-> [m \in Slots |-> HiddenSamples[((hid + m - 2) % Len(HiddenSamples)) + 1]],
     masked_entity_labels |-> labels]

OneReal == [c \in 1..NumCand |-> IF c = 1 THEN 1 ELSE 0]

OnePosition == [k \in 1..MaxMention |-> IF k = 1 THEN 0 ELSE -1]

\* Batches that vary the candidates and the hidden vectors.
SelInputs ==
    {Batch(ids, OnePosition, 0, hid, <<>>) :
        ids \in [1..NumCand -> 0..(V - 1)], hid \in 1..Len(HiddenSamples)}

\* Batches that vary the positions, the segments and the labels.
EmbInputs ==
    {Batch(ids, pos, seg, 2, labels) :
        ids \in {OneReal, [c \in 1..NumCand |-> c % V]},
        pos \in [1..MaxMention -> -1..(Sizes.max_position_embeddings - 1)],
        seg \in 0..(Sizes.type_vocab_size - 1),
        labels \in {<<>>} \cup [Slots -> {-1, 1}]}

FwdInputs == SelInputs \cup EmbInputs

FwdIdle == fpc = "idle" /\ fin = <<>> /\ fout = <<>>

LoadIdle == hist = [n |-> 0, via |-> {}] /\ ld = <<>> /\ log = <<>>

\* No load_and_cache_examples call under way.
DistIdle ==
    /\ evaluate = FALSE /\ ranks = {} /\ cache_file = "absent" /\ wrote = {}
    /\ lpc = <<>> /\ entered = <<>> /\ seen = <<>> /\ features = <<>>

DataIdle == cpc = "features" /\ ret = <<>> /\ ext = <<>> /\ DistIdle

FwdInit ==
    /\ \E temp \in Temps : config = FwdConfig(temp)
    /\ params = E2EParams(config)
    /\ heap \in FwdHeaps(config)
    /\ FwdIdle
    /\ LoadIdle
    /\ DataIdle

\* model(**inputs) on a LukeE2EModel, for the batches of S
ForwardOn(S) ==
    /\ fpc = "idle"
    /\ \E in \in S :
         /\ fin' = in
         /\ fout' = E2EForward(config, params, heap, in)
    /\ fpc' = "returned"
    /\ UNCHANGED <<wvars, lvars, cvars>>

Forward == ForwardOn(FwdInputs)

\* The caller drops the call's tensors; nothing of a call is kept.
Discard ==
    /\ fpc = "returned"
    /\ fpc' = "idle"
    /\ fin' = <<>>
    /\ fout' = <<>>
    /\ UNCHANGED <<wvars, lvars, cvars>>

FwdNext == Forward \/ Discard

SpecFwd == FwdInit /\ [][FwdNext]_vars

(***************************************************************************)
(* Properties of the forward pass (checked under SpecFwd).                 *)
(***************************************************************************)
Returned == fpc = "returned" /\ fout.raised = "none"

PadSlots(m) == {c \in 1..NumCand : fin.entity_candidate_ids[m][c] = 0}

RealSlots(m) == {c \in 1..NumCand : fin.entity_candidate_ids[m][c] # 0}

Raw(m, c) == RawScore(params, heap, fin.hidden[m], fin.entity_candidate_ids[m][c])

\* Some real candidate's score, before scaling, is at least 14 temperatures
\* above the penalised score of padding candidate c (14 > ln 1e6).
Dominated(m, c) ==
    \E r \in RealSlots(m) :
        Raw(m, r) - (Raw(m, c) + PAD_PENALTY) >= 14 * config.entity_selector_softmax_temp

\* C1 as stated: every candidate whose id is 0 gets a selection probability
\* below 1e-6 whatever the raw scores, the temperature and the number of
\* padding candidates; with one real candidate and the others padding the
\* real one gets more than 0.99.
C1_PaddingAlwaysNegligible ==
    Returned =>
        \A m \in Slots :
            /\ \A c \in PadSlots(m) : Below(fout.slots[m].exp_w[c], fout.slots[m].exp_z, 1000000)
            /\ \A r \in RealSlots(m) :
                  RealSlots(m) = {r} =>
                      Below(fout.slots[m].exp_z - fout.slots[m].exp_w[r], fout.slots[m].exp_z, 100)

\* C1 amended: a candidate whose id is 0 gets a selection probability below
\* 1e-6 whenever its slot holds a real candidate whose raw score exceeds the
\* padding candidate's raw score minus 10000 by at least 14 times the
\* (positive) temperature; when the only real candidate of a slot does so for
\* every padding candidate, its probability exceeds 0.99.
C1_PaddingNegligibleWhenDominated ==
    Returned =>
        \A m \in Slots :
            /\ \A c \in PadSlots(m) :
                  Dominated(m, c) => Below(fout.slots[m].exp_w[c], fout.slots[m].exp_z, 1000000)
            /\ \A r \in RealSlots(m) :
                  (RealSlots(m) = {r} /\ \A c \in PadSlots(m) : Dominated(m, c)) =>
                      Below(fout.slots[m].exp_z - fout.slots[m].exp_w[r], fout.slots[m].exp_z, 100)

\* One real candidate and otherwise padding, a temperature other than 1, a
\* padding row that scores above the real candidate before the penalty.
C1_Witness ==
    /\ Returned
    /\ config.entity_selector_softmax_temp = 100
    /\ \E m \in Slots :
          /\ Cardinality(RealSlots(m)) = 1
          /\ Cardinality(PadSlots(m)) = NumCand - 1
          /\ \A c \in PadSlots(m) :
                /\ Dominated(m, c)
                /\ \E r \in RealSlots(m) : Raw(m, c) > Raw(m, r)

PositionTable == Read(params, heap, <<"entity_embeddings", "position_embeddings", "weight">>)

RealPositions(m) ==
    {k \in 1..MaxMention : fin.entity_position_ids[m][k] # -1}

RECURSIVE SumOfRows(_, _, _)
SumOfRows(table, ids, S) ==
    IF S = {} THEN ZeroVec(table.dim)
    ELSE LET k == CHOOSE k \in S : TRUE
         IN VAdd(table.data[ids[k]], SumOfRows(table, ids, S \ {k}))

\* C3: the position component of every entity slot is the sum of the
\* position-embedding rows at the position ids other than -1, divided by
\* their number (plus EPS); a -1 slot contributes no row, and a slot with no
\* real position yields the zero vector.
C3_MaskedMeanOfRealPositions ==
    Returned =>
        \A m \in Slots :
            LET real == RealPositions(m)
                total == SumOfRows(PositionTable, fin.entity_position_ids[m], real)
            IN /\ fout.slots[m].position = [h \in 1..H |-> DivEps(total[h], Cardinality(real))]
               /\ real = {} => fout.slots[m].position = ZeroVec(H)

\* A slot with no real position and a slot with a real and a -1 position,
\* while row 0 of the position table is not zero.
C3_Witness ==
    /\ Returned
    /\ PositionTable.data[0] # ZeroVec(H)
    /\ \E m \in Slots : RealPositions(m) = {}
    /\ \E m \in Slots :
          /\ RealPositions(m) # {} /\ RealPositions(m) # 1..MaxMention
          /\ fout.slots[m].position # ZeroVec(H)

MaskEmbedding(m) ==
    EntityEmbeddingsForward(params, heap, <<"entity_embeddings">>, MASK_ENTITY,
                            fin.entity_position_ids[m], fin.entity_segment_ids[m]).out

\* C9: with masked_entity_labels given, a slot whose label is not -1 is fed
\* the embedding of entity 2 at the slot's positions and segment and nothing
\* of the mixture, a slot whose label is -1 is fed the mixture unchanged;
\* with the labels omitted every slot is fed the mixture.
C9_OneSourcePerSlot ==
    Returned =>
        \A m \in Slots :
            fout.slots[m].entity_embedding_output =
                IF fin.masked_entity_labels # <<>> /\ fin.masked_entity_labels[m] # -1
                THEN MaskEmbedding(m)
                ELSE fout.slots[m].mixed

\* Labels given, one slot overridden and one kept, the overridden slot's
\* mixture neither zero nor equal to the [MASK] embedding.
C9_Witness ==
    /\ Returned
    /\ fin.masked_entity_labels # <<>>
    /\ \E m \in Slots :
          /\ fin.masked_entity_labels[m] # -1
          /\ fout.slots[m].mixed # ZeroVec(H)
          /\ fout.slots[m].mixed # MaskEmbedding(m)
    /\ \E m \in Slots :
          /\ fin.masked_entity_labels[m] = -1
          /\ fout.slots[m].mixed # ZeroVec(H)

(***************************************************************************)
(* State dicts.  A state dict is an ordered mapping: a sequence of entries *)
(* [key, tensor] with distinct keys, in insertion order.  A key is the     *)
(* sequence of the names its dots separate.                                *)
(***************************************************************************)
Keys(sd) == {sd[i].key : i \in DOMAIN sd}

HasKey(sd, k) == k \in Keys(sd)

Get(sd, k) == sd[CHOOSE i \in DOMAIN sd : sd[i].key = k].tensor

\* sd[k] = v
DictSet(sd, k, v) ==
    IF HasKey(sd, k)
    THEN [i \in DOMAIN sd |-> IF sd[i].key = k THEN [key |-> k, tensor |-> v] ELSE sd[i]]
    ELSE Append(sd, [key |-> k, tensor |-> v])

\* del sd[k]
DictDel(sd, k) == SelectSeq(sd, LAMBDA e : e.key # k)

\* key.replace('gamma', 'weight').replace('beta', 'bias'), name by name; the
\* replacement is by substring, so a name that holds a legacy name changes too.
ReplaceName(n) ==
    CASE n = "gamma" -> "weight"
      [] n = "beta" -> "bias"
      [] n = "LayerNorm_gamma" -> "LayerNorm_weight"
      [] n = "beta1" -> "bias1"
      [] OTHER -> n

\* A renaming that leaves the structural prefix in place.
NewKey_KeepPrefix(key) == [i \in DOMAIN key |-> ReplaceName(key[i])]

\* Lines 111-113: the new key of a key.
NewKey(key) ==
    LET replaced == [i \in DOMAIN key |-> ReplaceName(key[i])]
    IN IF Len(replaced) > 1 /\ replaced[1] = "bert" THEN Tail(replaced) ELSE replaced

RECURSIVE RenameKeys(_, _, _)
\* Lines 110-117: the loop over list(state_dict.keys()), from entry i on.
RenameKeys(sd, keys, i) ==
    IF i > Len(keys) THEN sd
    ELSE LET key == keys[i]
             new_key == NewKey(key)
         IN IF key # new_key
            THEN RenameKeys(DictDel(DictSet(sd, new_key, Get(sd, key)), key), keys, i + 1)
            ELSE RenameKeys(sd, keys, i + 1)

NormaliseKeys(state_dict) ==
    RenameKeys(state_dict, [i \in DOMAIN state_dict |-> state_dict[i].key], 1)

\* Line 109: the loop renames in state_dict.copy(), the working mapping; the
\* mapping the caller passed keeps the entries it had.
CallerDict(state_dict, working) == state_dict

(***************************************************************************)
(* load_bert_weights: load(self, prefix='') walks the tree and calls       *)
(* nn.Module._load_from_state_dict(strict=True) on every module.           *)
(***************************************************************************)
StartsWith(key, prefix) ==
    Len(key) > Len(prefix) /\ SubSeq(key, 1, Len(prefix)) = prefix

ChildNames(tree, m) ==
    {c.path[Len(c.path)] : c \in {c \in Range(tree) : /\ Len(c.path) = Len(m.path) + 1
                                                       /\ StartsWith(c.path, m.path)}}

\* A comparison of the row widths alone.
ShapeMismatch_WidthOnly(input_param, param) == input_param.dim # param.dim

\* input_param.shape != param.shape
ShapeMismatch(input_param, param) == Shape(input_param) # Shape(param)

\* A loader that re-initialises the parameters the checkpoint lacks.
LoadParam_ResetMissing(ps, hp, sd, path) ==
    IF ~HasKey(sd, path)
    THEN [hp EXCEPT ![ps[path]] = FillTensor(@.nrows, @.dim, 0)]
    ELSE IF ShapeMismatch(Get(sd, path), hp[ps[path]]) THEN hp
    ELSE [hp EXCEPT ![ps[path]] = Get(sd, path)]

\* One parameter of one module: copied in place when the key is there and
\* the shapes agree, left alone otherwise.
LoadParam(ps, hp, sd, path) ==
    IF HasKey(sd, path) /\ ~ShapeMismatch(Get(sd, path), hp[ps[path]])
    THEN [hp EXCEPT ![ps[path]] = Get(sd, path)]
    ELSE hp

RECURSIVE LoadParams(_, _, _, _, _)
LoadParams(ps, hp, sd, paths, k) ==
    IF k > Len(paths) THEN hp
    ELSE LoadParams(ps, LoadParam(ps, hp, sd, paths[k]), sd, paths, k + 1)

MissingKeys(sd, paths) == SelectSeq(paths, LAMBDA path : ~HasKey(sd, path))

ErrorMsgs(ps, hp, sd, paths) ==
    SelectSeq(paths, LAMBDA path : HasKey(sd, path) /\ ShapeMismatch(Get(sd, path), hp[ps[path]]))

UnexpectedKeys(tree, sd) ==
    {key \in Keys(sd) :
        \E m \in Range(tree) :
            /\ StartsWith(key, m.path)
            /\ key[Len(m.path) + 1] \notin ChildNames(tree, m) \cup Range(LocalNames(m))}

\* The records load_bert_weights hands to the logger: the unexpected keys,
\* at level info.  missing_keys is collected and not used again.
LoadLog(missing_keys, unexpected_keys) ==
    IF unexpected_keys # {}
    THEN << [level |-> "info", what |-> "not used", keys |-> unexpected_keys] >>
    ELSE << >>

\* The whole call: the outcome and the storage it leaves.
LoadBertWeights(tree, ps, hp, state_dict) ==
    LET sd == NormaliseKeys(state_dict)
        paths == ParamPaths(tree)
        missing_keys == MissingKeys(sd, paths)
        unexpected_keys == UnexpectedKeys(tree, sd)
        error_msgs == ErrorMsgs(ps, hp, sd, paths)
    IN [heap |-> LoadParams(ps, hp, sd, paths, 1),
        normalised |-> sd,
        caller |-> CallerDict(state_dict, sd),
        missing_keys |-> missing_keys,
        unexpected_keys |-> unexpected_keys,
        error_msgs |-> error_msgs,
        logged |-> LoadLog(missing_keys, unexpected_keys),
        raised |-> IF Len(error_msgs) > 0 THEN "RuntimeError" ELSE "none"]

(***************************************************************************)
(* Checkpoints: state dicts of at most MaxKeys entries drawn from a pool   *)
(* of plain-transformer keys (legacy and current names, with and without   *)
(* the "bert." prefix), keys no module owns, and entity-aware keys, some   *)
(* with a shape the model does not have.                                   *)
(***************************************************************************)
Entry(key, seed, n, d) == [key |-> key, tensor |-> DrawTensor(seed, n, d)]

Pool ==
    << Entry(<<"bert", "embeddings", "LayerNorm", "gamma">>, 3, 1, H),
       Entry(<<"bert", "embeddings", "LayerNorm", "beta">>, 4, 1, H),
       Entry(<<"embeddings", "LayerNorm", "weight">>, 4, 1, H),
       Entry(<<"bert", "encoder", "layer", "0", "dense", "weight">>, 3, 1, H),
       Entry(<<"bert", "encoder", "layer", "0", "dense", "weight">>, 3, 2, H),
       Entry(<<"cls", "predictions", "bias">>, 3, 1, H),
       Entry(<<"encoder", "layer", "x", "dense", "weight">>, 4, 1, H),
       Entry(ENTITY_W, 3, V, H),
       Entry(ENTITY_W, 3, V + 1, H),
       Entry(SELECTOR_W, 4, V, H),
       Entry(<<"entity_selector", "bias", "weight">>, 3, V, 1) >>

RECURSIVE Ascending(_)
\* The members of a set of numbers, in increasing order.
Ascending(S) ==
    IF S = {} THEN <<>>
    ELSE LET x == CHOOSE x \in S : \A y \in S : x <= y
         IN <<x>> \o Ascending(S \ {x})

Reverse(q) == [i \in 1..Len(q) |-> q[Len(q) + 1 - i]]

PickFromPool(order) == [i \in DOMAIN order |-> Pool[order[i]]]

Checkpoints ==
    {sd \in {PickFromPool(order) :
                order \in UNION {{Ascending(S), Reverse(Ascending(S))} :
                                    S \in {S \in SUBSET (1..Len(Pool)) : Cardinality(S) <= MaxKeys}}} :
        Cardinality(Keys(sd)) = Len(sd)}

\* Checkpoints for the runs that mix loading with other weight mutations:
\* an entity-aware one holding both names of the shared table, one holding
\* the selector's name alone, a plain one.
TiedCheckpoints ==
    { PickFromPool(<<8, 10>>), PickFromPool(<<10>>), PickFromPool(<<1, 4>>) }

\* model.load_bert_weights(state_dict), for the state dicts of S
Did(op) == [n |-> hist.n + 1, via |-> hist.via \cup {op}]

LoadOn(S) ==
    /\ hist.n < MaxOps
    /\ \E state_dict \in S :
         LET r == LoadBertWeights(LukeE2EModules(config), params, heap, state_dict)
         IN /\ heap' = r.heap
            /\ ld' = [state_dict |-> state_dict, before |-> heap, normalised |-> r.normalised,
                      caller |-> r.caller,
                      missing_keys |-> r.missing_keys, unexpected_keys |-> r.unexpected_keys,
                      error_msgs |-> r.error_msgs, raised |-> r.raised]
            /\ log' = log \o r.logged
            /\ hist' = Did(<<"load_bert_weights">>)
    /\ UNCHANGED <<config, params, fvars, cvars>>

(***************************************************************************)
(* The loading specification: one load_bert_weights call on a built model  *)
(* in one of the weight states of the forward specification.               *)
(***************************************************************************)
LoadInit ==
    /\ config = FwdConfig(1)
    /\ params = E2EParams(config)
    /\ heap \in FwdHeaps(config)
    /\ FwdIdle
    /\ LoadIdle
    /\ DataIdle

LoadBert == ld = <<>> /\ LoadOn(Checkpoints)

LoadNext == LoadBert

SpecLoad == LoadInit /\ [][LoadNext]_vars

(***************************************************************************)
(* The weights specification: a freshly built model whose weights are      *)
(* mutated through init_weights, optimizer updates and in-place loading.   *)
(***************************************************************************)
WeightsInit ==
    /\ config = FwdConfig(1)
    /\ params = E2EParams(config)
    /\ \E seed \in 1..NumDraws : heap = E2EHeap(config, seed)
    /\ FwdIdle
    /\ LoadIdle
    /\ DataIdle

\* self.init_weights(module) on one module holding parameters
InitWeights ==
    /\ hist.n < MaxOps
    /\ \E m \in Range(LukeE2EModules(config)), seed \in 1..NumDraws :
         /\ m.kind # "container"
         /\ heap' = init_weights(params, heap, m, seed)
         /\ hist' = Did(<<"init_weights">> \o m.path)
    /\ UNCHANGED <<config, params, ld, log, fvars, cvars>>

\* Paths an optimizer is handed the shared table, and one other tensor, by.
StepPaths == {ENTITY_W, SELECTOR_W, <<"entity_selector", "bias", "weight">>}

\* The in-place update p.data.add_(...) of the parameter reached by `path`.
StepTensor(t) == [t EXCEPT !.data = [i \in DOMAIN t.data |-> [h \in DOMAIN t.data[i] |-> t.data[i][h] + 1]]]

OptimizerStep ==
    /\ hist.n < MaxOps
    /\ \E path \in StepPaths :
         /\ heap' = [heap EXCEPT ![params[path]] = StepTensor(@)]
         /\ hist' = Did(<<"step">> \o path)
    /\ UNCHANGED <<config, params, ld, log, fvars, cvars>>

LoadTied == LoadOn(TiedCheckpoints)

WeightsNext == InitWeights \/ OptimizerStep \/ LoadTied

SpecWeights == WeightsInit /\ [][WeightsNext]_vars

(***************************************************************************)
(* Properties of the weights (checked under SpecWeights).                  *)
(***************************************************************************)
\* C2: in every state of a built model, also after init_weights and after a
\* checkpoint load, row 0 of the entity-identity embedding table is the zero
\* vector (so entity id 0 adds the zero vector in EntityEmbeddings.forward).
C2_PaddingRowIsZero == Read(params, heap, ENTITY_W).data[0] = ZeroVec(H)

\* C4: the selector's candidate table and the entity-identity table are one
\* parameter: after any sequence of mutations through either path, by
\* init_weights, optimizer updates or in-place loading, both consumers read
\* the same values.
C4_SelectorSharesEntityTable ==
    /\ Read(params, heap, SELECTOR_W) = Read(params, heap, ENTITY_W)
    /\ \A id \in 0..(V - 1), hid \in DOMAIN HiddenSamples :
          RawScore(params, heap, HiddenSamples[hid], id)
            = Dot(HiddenSamples[hid], Read(params, heap, ENTITY_W).data[id])
                + Read(params, heap, <<"entity_selector", "bias", "weight">>).data[id][1]

\* The table was re-initialised through the entity-embedding module and then
\* updated through the selector's path, and no longer holds what it was
\* built with.
C4_Witness ==
    /\ hist.via = { <<"init_weights", "entity_embeddings", "entity_embeddings">>,
                    <<"step">> \o SELECTOR_W }
    /\ \A seed \in 1..NumDraws :
          Read(params, heap, ENTITY_W) # E2EHeap(config, seed)[ENTITY_W]

(***************************************************************************)
(* Properties of load_bert_weights (checked under SpecLoad).               *)
(***************************************************************************)
Loaded == ld # <<>>

\* The parameters whose checkpoint tensor has another shape.
Mismatched ==
    {path \in DOMAIN params :
        /\ HasKey(ld.normalised, path)
        /\ Shape(Get(ld.normalised, path)) # Shape(ld.before[params[path]])}

\* C5: load_bert_weights ends in RuntimeError, naming the parameter paths,
\* exactly when some checkpoint tensor's shape differs from the shape of the
\* parameter it is assigned to; missing and unexpected keys alone never raise.
C5_RaisesIffShapeMismatch ==
    Loaded =>
        /\ (ld.raised = "RuntimeError") <=> (Mismatched # {})
        /\ Range(ld.error_msgs) = Mismatched
        /\ ld.raised \in {"none", "RuntimeError"}

\* A load that raised for one parameter while other keys were unexpected and
\* missing, the rest of the checkpoint having been copied.
C5_Witness ==
    /\ Loaded
    /\ ld.raised = "RuntimeError"
    /\ Cardinality(Mismatched) = 1
    /\ ld.unexpected_keys # {}
    /\ Len(ld.missing_keys) > 0
    /\ heap # ld.before

EntityModules == {"entity_embeddings", "mask_entity_embeddings", "el_encoder", "entity_selector"}

\* A checkpoint of a plain transformer: no entity-specific key.
Plain(sd) == \A k \in Keys(sd) : k[1] \notin EntityModules

\* C6: loading a plain checkpoint succeeds (no shape differing) and leaves
\* every parameter whose normalised key the checkpoint lacks, hence every
\* entity-specific parameter, as it was; a parameter whose key is present
\* with the parameter's shape takes the checkpoint's tensor; unexpected keys
\* change nothing.
C6_PlainCheckpointFrame ==
    (Loaded /\ Plain(ld.normalised)) =>
        /\ Mismatched = {} => ld.raised = "none"
        /\ \A path \in DOMAIN params :
              /\ ~HasKey(ld.normalised, path) => heap[params[path]] = ld.before[params[path]]
              /\ path[1] \in EntityModules => heap[params[path]] = ld.before[params[path]]
              /\ (HasKey(ld.normalised, path) /\ path \notin Mismatched) =>
                    heap[params[path]] = Get(ld.normalised, path)

\* A plain checkpoint with a legacy key and a key no module owns, loaded
\* without error into a model whose padding row is not fresh.
C6_Witness ==
    /\ Loaded
    /\ Plain(ld.normalised)
    /\ HasKey(ld.state_dict, <<"bert", "embeddings", "LayerNorm", "gamma">>)
    /\ ld.unexpected_keys # {}
    /\ ld.raised = "none"
    /\ heap # ld.before
    /\ Read(params, heap, ENTITY_W).data[0] # ZeroVec(H)

\* C7: whenever load_bert_weights finds missing keys or unexpected keys, it
\* logs them: every missing key as missing, every unexpected key as unused.
C7_MissingAndUnexpectedLogged ==
    Loaded =>
        /\ Len(ld.missing_keys) > 0 =>
              \E k \in DOMAIN log :
                  log[k].what = "missing" /\ Range(ld.missing_keys) \subseteq log[k].keys
        /\ ld.unexpected_keys # {} =>
              \E k \in DOMAIN log :
                  log[k].what = "not used" /\ ld.unexpected_keys \subseteq log[k].keys

(***************************************************************************)
(* The renaming specification: one load_bert_weights call on a built model *)
(* with a checkpoint of legacy, prefixed and current keys, in both orders,  *)
(* every entry holding a tensor of its own.                                *)
(***************************************************************************)
LegacyPool ==
    << Entry(<<"bert", "embeddings", "LayerNorm", "gamma">>, 0, 1, H),
       Entry(<<"embeddings", "LayerNorm", "weight">>, 1, 1, H),
       Entry(<<"bert", "embeddings", "LayerNorm", "beta">>, 2, 1, H),
       Entry(<<"bert", "bert", "encoder", "layer", "0", "dense", "weight">>, 3, 1, H),
       Entry(<<"bert", "encoder", "layer", "0", "dense", "weight">>, 4, 1, H),
       Entry(<<"encoder", "layer", "0", "dense", "bias">>, 0, 2, H),
       Entry(<<"cls", "LayerNorm_gamma">>, 1, 2, H),
       Entry(<<"bert">>, 2, 2, H),
       Entry(<<"encoder", "layer", "0", "dense", "beta1">>, 3, 2, H) >>

LegacyCheckpoints ==
    {[i \in DOMAIN order |-> LegacyPool[order[i]]] :
        order \in UNION {{Ascending(S), Reverse(Ascending(S))} :
                            S \in {S \in SUBSET (1..Len(LegacyPool)) :
                                      Cardinality(S) \in 1..MaxKeys}}}

NormInit ==
    /\ config = FwdConfig(1)
    /\ params = E2EParams(config)
    /\ heap = E2EHeap(config, 1)
    /\ FwdIdle
    /\ LoadIdle
    /\ DataIdle

LoadLegacy == ld = <<>> /\ LoadOn(LegacyCheckpoints)

NormNext == LoadLegacy

SpecNorm == NormInit /\ [][NormNext]_vars

\* The name holds 'gamma' or 'beta'.
HoldsLegacyName(n) == n \in {"gamma", "beta", "LayerNorm_gamma", "beta1"}

\* key.startswith('bert.')
HasBertPrefix(key) == Len(key) > 1 /\ key[1] = "bert"

\* Every input entry's tensor is in the normalised mapping under norm(k).
AllTensorsKept ==
    \A k \in Keys(ld.state_dict) :
        /\ HasKey(ld.normalised, NewKey(k))
        /\ Get(ld.normalised, NewKey(k)) = Get(ld.state_dict, k)

\* No two keys have one normal form, and no renamed key lands on a key of
\* the input.
NoClash(sd) ==
    \A k, k2 \in Keys(sd) : k # k2 => (NewKey(k) # NewKey(k2) /\ NewKey(k) # k2)

ArchConfig(n, el) ==
    [num_hidden_layers |-> n, num_el_hidden_layers |-> el, entity_selector_softmax_temp |-> 1]

ArchInit ==
    /\ \E n \in 1..MaxLayers, el \in 1..MaxLayers : config = ArchConfig(n, el)
    /\ params = E2EParams(config)
    /\ heap = E2EHeap(config, 1)
    /\ FwdIdle
    /\ LoadIdle
    /\ DataIdle

ArchInputs == {Batch(ids, OnePosition, 0, 2, <<>>) : ids \in [1..NumCand -> 0..(V - 1)]}

ForwardArch == ForwardOn(ArchInputs)

ArchNext == ForwardArch \/ Discard

SpecArch == ArchInit /\ [][ArchNext]_vars

EncoderPaths(p) == {path \in DOMAIN params : path[1] = p}

\* C8: the stage-1 encoder stack has exactly num_el_hidden_layers layers,
\* with weights of its own; the main stack has num_hidden_layers layers; the
\* stage-1 pass of forward applies exactly num_el_hidden_layers layers, its
\* head-mask list never shorter than the stack, also when
\* num_el_hidden_layers < num_hidden_layers.
C8_StageOneDepth ==
    fpc = "returned" =>
        LET tree == LukeE2EModules(config)
        IN /\ NumLayers(tree, <<"el_encoder">>) = config.num_el_hidden_layers
           /\ NumLayers(tree, <<"encoder">>) = config.num_hidden_layers
           /\ \A a \in EncoderPaths("el_encoder"), b \in EncoderPaths("encoder") :
                 params[a] # params[b]
           /\ fout.raised = "none"
           /\ fout.el_layers = config.num_el_hidden_layers
           /\ fout.main_layers = config.num_hidden_layers

(***************************************************************************)
(* collate_fn (main.py) and _compute_extended_attention_mask.  Of the      *)
(* batch, the two attention masks are kept.                                *)
(***************************************************************************)
\* torch.nn.utils.rnn.pad_sequence(tensors, batch_first=True, padding_value)
PadSequence(seqs, padding_value) ==
    LET width == MaxOf({Len(seqs[b]) : b \in DOMAIN seqs})
    IN [b \in DOMAIN seqs |->
          [i \in 1..width |-> IF i <= Len(seqs[b]) THEN seqs[b][i] ELSE padding_value]]

\* x[:, :n]
Truncate(rows, n) ==
    [b \in DOMAIN rows |-> [i \in 1..(IF Len(rows[b]) < n THEN Len(rows[b]) ELSE n) |-> rows[b][i]]]

\* x.fill_(v)
Fill(rows, v) == [b \in DOMAIN rows |-> [i \in DOMAIN rows[b] |-> v]]

CollateFn(batch, max_entity_length, no_entity) ==
    LET word == PadSequence([b \in DOMAIN batch |-> batch[b].word_attention_mask], 0)
        entity == Truncate(PadSequence([b \in DOMAIN batch |-> batch[b].entity_attention_mask], 0),
                           max_entity_length)
    IN [word_attention_mask |-> word,
        entity_attention_mask |-> IF no_entity THEN Fill(entity, 0) ELSE entity]

\* A bias with the entity slots placed before the word slots.
ExtendedAttentionMask_EntityFirst(word_attention_mask, entity_attention_mask) ==
    LET attention_mask == entity_attention_mask \o word_attention_mask
    IN [i \in DOMAIN attention_mask |-> (1 - attention_mask[i]) * MASKED_OUT]

\* _compute_extended_attention_mask, for one example
ExtendedAttentionMask(word_attention_mask, entity_attention_mask) ==
    LET attention_mask == word_attention_mask \o entity_attention_mask
    IN [i \in DOMAIN attention_mask |-> (1 - attention_mask[i]) * MASKED_OUT]

Bits(n) == [1..n -> {0, 1}]

\* Example b of a batch is the base example cut short by b - 1 entries.
CutShort(q, b) == SubSeq(q, 1, IF Len(q) > b - 1 THEN Len(q) - (b - 1) ELSE 0)

FeatureBatches ==
    {[b \in 1..BatchSize |-> [word_attention_mask |-> CutShort(w, b),
                              entity_attention_mask |-> CutShort(e, b)]] :
        w \in UNION {Bits(n) : n \in 1..MaxWords},
        e \in UNION {Bits(n) : n \in 0..MaxEntities}}

DataInit ==
    /\ config = FwdConfig(1)
    /\ params = E2EParams(config)
    /\ heap = E2EHeap(config, 1)
    /\ FwdIdle
    /\ LoadIdle
    /\ DataIdle

\* The DataLoader calls collate_fn on a batch of features.
Collate ==
    /\ cpc = "features"
    /\ \E batch \in FeatureBatches, max_entity_length \in 1..MaxEntities, no_entity \in BOOLEAN :
         ret' = [no_entity |-> no_entity] @@ CollateFn(batch, max_entity_length, no_entity)
    /\ cpc' = "collated"
    /\ UNCHANGED <<ext, dvars, wvars, fvars, lvars>>

\* LukeModel.forward, line 157, on the collated batch
ComputeMask ==
    /\ cpc = "collated"
    /\ ext' = [b \in DOMAIN ret.word_attention_mask |->
                 ExtendedAttentionMask(ret.word_attention_mask[b], ret.entity_attention_mask[b])]
    /\ cpc' = "encoded"
    /\ UNCHANGED <<ret, dvars, wvars, fvars, lvars>>

\* The loop goes on to the next batch.
NextBatch ==
    /\ cpc = "encoded"
    /\ cpc' = "features"
    /\ ret' = <<>>
    /\ ext' = <<>>
    /\ UNCHANGED <<dvars, wvars, fvars, lvars>>

DataNext == Collate \/ ComputeMask \/ NextBatch

SpecData == DataInit /\ [][DataNext]_vars

Bias(bit) == IF bit = 1 THEN 0 ELSE MASKED_OUT

\* C10: for word and entity attention masks of lengths W and E with 0/1
\* entries the bias vector of an example has length W + E, its first W
\* entries those of the word slots in order and its last E entries those of
\* the entity slots in order, 0 where the mask is 1 and -10000 where it is 0;
\* with the no-entity option every entity slot gets -10000.
C10_BiasFollowsMasks ==
    cpc = "encoded" =>
        \A b \in DOMAIN ext :
            LET word == ret.word_attention_mask[b]
                entity == ret.entity_attention_mask[b]
            IN /\ Len(ext[b]) = Len(word) + Len(entity)
               /\ \A i \in 1..Len(word) : ext[b][i] = Bias(word[i])
               /\ \A j \in 1..Len(entity) : ext[b][Len(word) + j] = Bias(entity[j])
               /\ ret.no_entity => \A j \in 1..Len(entity) : ext[b][Len(word) + j] = MASKED_OUT

\* An encoded batch with the no-entity option whose features had a real
\* entity slot, and whose word masks hold both a real and a padded slot.
C10_Witness ==
    /\ cpc = "encoded"
    /\ ret.no_entity
    /\ \E b \in DOMAIN ext :
          /\ Len(ret.entity_attention_mask[b]) = MaxEntities
          /\ \E i, k \in 1..Len(ret.word_attention_mask[b]) :
                ret.word_attention_mask[b][i] = 1 /\ ret.word_attention_mask[b][k] = 0

(***************************************************************************)
(* load_and_cache_examples (main.py) up to the cache file, called by every *)
(* process of a run.  A process is named by its args.local_rank; lpc holds *)
(* the line it is about to execute, or waits in.  torch.save is not atomic: *)
(* the file exists, partly written, before it is complete.  A barrier      *)
(* releases its callers once every process of the group has entered it.    *)
(***************************************************************************)
\* A first-barrier test that lets every rank through.
FirstBarrier_Never(local_rank, ev) == FALSE

\* Line 169
FirstBarrier(local_rank, ev) == local_rank \notin {-1, 0} /\ ~ev

\* Line 218
SecondBarrier(local_rank, ev) == local_rank = 0 /\ ~ev

\* Line 215
MayWrite(local_rank) == local_rank \in {-1, 0}

Groups == {{-1}} \cup {0..(n - 1) : n \in 1..MaxProcs}

DistInit ==
    /\ config = FwdConfig(1)
    /\ params = E2EParams(config)
    /\ heap = E2EHeap(config, 1)
    /\ FwdIdle
    /\ LoadIdle
    /\ cpc = "features" /\ ret = <<>> /\ ext = <<>>
    /\ evaluate \in BOOLEAN
    /\ ranks \in Groups
    /\ cache_file \in {"absent", "complete"}
    /\ lpc = [p \in ranks |-> "l169"]
    /\ entered = [p \in ranks |-> 0]
    /\ seen = [p \in ranks |-> "none"]
    /\ features = [p \in ranks |-> "none"]
    /\ wrote = {}

DistFrame == UNCHANGED <<evaluate, ranks, wvars, fvars, lvars, cpc, ret, ext>>

\* Lines 169-170: ranks other than -1 and 0 enter the barrier in training mode.
Enter(p) ==
    /\ lpc[p] = "l169"
    /\ IF FirstBarrier(p, evaluate)
       THEN /\ lpc' = [lpc EXCEPT ![p] = "l170"]
            /\ entered' = [entered EXCEPT ![p] = @ + 1]
       ELSE /\ lpc' = [lpc EXCEPT ![p] = "l198"]
            /\ UNCHANGED entered
    /\ UNCHANGED <<cache_file, seen, features, wrote>>
    /\ DistFrame

\* Line 198: os.path.exists(cache_file)
TestCache(p) ==
    /\ lpc[p] = "l198"
    /\ seen' = [seen EXCEPT ![p] = cache_file]
    /\ lpc' = [lpc EXCEPT ![p] = IF cache_file # "absent" THEN "l200" ELSE "l210"]
    /\ UNCHANGED <<cache_file, entered, features, wrote>>
    /\ DistFrame

\* Line 200: torch.load(cache_file); a partly written file does not unpickle.
LoadCache(p) ==
    /\ lpc[p] = "l200"
    /\ features' = [features EXCEPT ![p] = IF cache_file = "complete" THEN "loaded" ELSE "error"]
    /\ lpc' = [lpc EXCEPT ![p] = IF cache_file = "complete" THEN "l218" ELSE "done"]
    /\ UNCHANGED <<cache_file, entered, seen, wrote>>
    /\ DistFrame

\* Lines 202-215: convert_examples_to_features, then the test of line 215.
CreateFeatures(p) ==
    /\ lpc[p] = "l210"
    /\ features' = [features EXCEPT ![p] = "created"]
    /\ lpc' = [lpc EXCEPT ![p] = IF MayWrite(p) THEN "l216" ELSE "l218"]
    /\ UNCHANGED <<cache_file, entered, seen, wrote>>
    /\ DistFrame

\* Line 216: torch.save opens the file and starts writing.
SaveBegin(p) ==
    /\ lpc[p] = "l216"
    /\ cache_file' = "partial"
    /\ wrote' = wrote \cup {p}
    /\ lpc' = [lpc EXCEPT ![p] = "l216w"]
    /\ UNCHANGED <<entered, seen, features>>
    /\ DistFrame

\* Line 216: torch.save returns.
SaveEnd(p) ==
    /\ lpc[p] = "l216w"
    /\ cache_file' = "complete"
    /\ lpc' = [lpc EXCEPT ![p] = "l218"]
    /\ UNCHANGED <<entered, seen, features, wrote>>
    /\ DistFrame

\* Lines 218-219: rank 0 enters the barrier in training mode.
Leave(p) ==
    /\ lpc[p] = "l218"
    /\ IF SecondBarrier(p, evaluate)
       THEN /\ lpc' = [lpc EXCEPT ![p] = "l219"]
            /\ entered' = [entered EXCEPT ![p] = @ + 1]
       ELSE /\ lpc' = [lpc EXCEPT ![p] = "done"]
            /\ UNCHANGED entered
    /\ UNCHANGED <<cache_file, seen, features, wrote>>
    /\ DistFrame

InBarrier(p) == lpc[p] \in {"l170", "l219"}

\* torch.distributed.barrier(): every process of the group has entered.
Release ==
    /\ ranks # {}
    /\ \A p \in ranks : InBarrier(p)
    /\ lpc' = [p \in ranks |-> IF lpc[p] = "l170" THEN "l198" ELSE "done"]
    /\ UNCHANGED <<cache_file, entered, seen, features, wrote>>
    /\ DistFrame

DistNext ==
    \/ \E p \in ranks : Enter(p)
    \/ \E p \in ranks : TestCache(p)
    \/ \E p \in ranks : LoadCache(p)
    \/ \E p \in ranks : CreateFeatures(p)
    \/ \E p \in ranks : SaveBegin(p)
    \/ \E p \in ranks : SaveEnd(p)
    \/ \E p \in ranks : Leave(p)
    \/ Release

SpecDist == DistInit /\ [][DistNext]_vars

\* A distributed training-mode call: local ranks 0..N-1, evaluate=False.
DistributedTraining == ~evaluate /\ -1 \notin ranks

AllDone == \A p \in ranks : lpc[p] = "done"

\* No process runs and some process waits in a barrier nobody will complete.
Stuck ==
    /\ \A p \in ranks : lpc[p] = "done" \/ InBarrier(p)
    /\ \E p \in ranks : InBarrier(p)
    /\ \E p \in ranks : ~InBarrier(p)

\* C12: in a distributed training-mode call every process calls the barrier
\* exactly once, ranks other than 0 before they test for the cache file and
\* rank 0 only after it has its features and the cache file is written; no
\* rank other than 0 tests for or reads the cache file before it is complete;
\* only rank 0 or -1 ever writes the file; no process is left blocked at the
\* barrier; with local rank -1 or evaluate=True no barrier is entered.
C12_BarrierOrdersCacheAccess ==
    /\ wrote \subseteq {-1, 0}
    /\ ~Stuck
    /\ DistributedTraining =>
          \A p \in ranks :
              /\ entered[p] <= 1
              /\ lpc[p] = "done" => entered[p] = 1
              /\ p # 0 =>
                    /\ seen[p] # "none" => entered[p] = 1
                    /\ lpc[p] \notin {"l169", "l170"} => cache_file = "complete"
                    /\ seen[p] \in {"none", "complete"}
                    /\ features[p] \in {"none", "loaded"}
              /\ (p = 0 /\ entered[p] = 1) =>
                    /\ features[p] \in {"loaded", "created"}
                    /\ cache_file = "complete"
    /\ ~DistributedTraining => \A p \in ranks : entered[p] = 0

\* A training-mode call of MaxProcs processes that found no cache file and
\* has returned everywhere: rank 0 created and wrote, the others loaded.
C12_Witness ==
    /\ DistributedTraining
    /\ ranks = 0..(MaxProcs - 1)
    /\ AllDone
    /\ wrote = {0}
    /\ features[0] = "created"
    /\ \A p \in ranks \ {0} : features[p] = "loaded" /\ entered[p] = 1

====
